---------------------------- MODULE Spec2Model ----------------------------
(***************************************************************************)
(* Model of the eoxs_allauth glue code:                                    *)
(*   - adapter.py      NoNewUsersAccountAdapter.is_open_for_signup         *)
(*   - middleware.py   access_logging_middleware,                          *)
(*                     inactive_user_logout_middleware                     *)
(*   - management/commands/auth_export_users.py   the export command       *)
(*                                                                         *)
(* Spec        : one request at a time travelling through a middleware     *)
(*               chain down to the view and back; the signup hook may be   *)
(*               called at any time.                                       *)
(* SpecExport  : runs of the auth_export_users command over a user store.  *)
(***************************************************************************)
EXTENDS Integers, Sequences, FiniteSets, TLC

VARIABLES
    \* ---- deployment (fixed at construction) ----
    chain,          \* the middleware chain, outermost first
    view_attrs,     \* attributes set on the view by the log_access decorator
    \* ---- user store and session ----
    active,         \* User.is_active of every stored user
    session,        \* username the session authenticates, or None
    \* ---- the request in flight ----
    phase,          \* "idle" | "enter" | "leave" | "raised"
    depth,          \* position in the chain of the callable that runs next
    request,        \* [method, path, META, user]
    logger,         \* the AccessLoggerAdapter context of middleware(), or NoLogger
    response,       \* value returned by the callable that returned last
    access_log,     \* lines the "access" logger received for this request
    \* ---- history of the request in flight ----
    calls,          \* calls[d]: how often the callable at depth d was invoked
    seen,           \* seen[d]: request.user as the callable at depth d got it
    view_response,  \* the response object the view built
    \* ---- signup hook ----
    signup_request, \* argument of the last is_open_for_signup call
    signup_result,  \* its result
    \* ---- export command ----
    store,          \* the user records of the database, in query order
    files,          \* content of the named file
    stdout,         \* what was written to standard output
    cmd             \* outcome of the last run of the command

mw_vars == <<chain, view_attrs, active, session, phase, depth, request, logger,
             response, access_log, calls, seen, view_response>>
signup_vars == <<signup_request, signup_result>>
export_vars == <<store, files, stdout, cmd>>
vars == <<mw_vars, signup_vars, export_vars>>

---------------------------------------------------------------------------
(* Values *)

None == "None"                 \* Python's None where a string is expected

\* logging levels (logging module)
DEBUG == 10
INFO == 20
WARNING == 30
ERROR == 40

Truthy(s) == s # None /\ s # ""

Users == {"alice", "bob"}
Methods == {"GET", "POST"}
Paths == {"/ows"}

\* X-Forwarded-For is modelled as the list of its comma separated entries;
\* <<>> is the absent (or empty) header.
MaxXff == 2
Addrs == {"", "10.0.0.1"}
XffHeaders == {h \in UNION {[1..n -> Addrs] : n \in 0..MaxXff} :
                  \A i \in 2..Len(h) : h[i] = "10.0.0.1"}
RemoteAddrs == {None, "192.0.2.7"}
Metas == {m \in [HTTP_X_FORWARDED_FOR : XffHeaders, REMOTE_ADDR : RemoteAddrs] :
             m.HTTP_X_FORWARDED_FOR # <<>> => m.REMOTE_ADDR # None}

AnonymousUser == [username |-> "", is_authenticated |-> FALSE, is_active |-> FALSE]
UserObject(u, act) == [username |-> u, is_authenticated |-> TRUE, is_active |-> act]

NoRequest == [method |-> "", path |-> "", user |-> AnonymousUser,
              META |-> [HTTP_X_FORWARDED_FOR |-> <<>>, REMOTE_ADDR |-> None]]
NoLogger == [remote_addr |-> "", username |-> ""]
NoResponse == [status_code |-> 0, reason_phrase |-> "", body |-> ""]

StatusCodes == {200, 399, 400, 499, 500}
ReasonPhrase(code) ==
    CASE code = 200 -> "OK"
      [] code = 400 -> "Bad Request"
      [] code = 500 -> "Internal Server Error"
      [] OTHER -> "Unknown Status Code"
Responses == {[status_code |-> c, reason_phrase |-> ReasonPhrase(c), body |-> "body"] :
                 c \in StatusCodes}

Chains == {<<"logout">>, <<"access">>, <<"logout", "access">>, <<"access", "logout">>}
AttrNames == {"log_level_auth", "log_level_unauth"}
ViewAttrs == UNION {[S -> {DEBUG}] : S \in SUBSET AttrNames}

ViewDepth == Len(chain) + 1

\* the export command: no file yet, no run yet
NoFile == [exists |-> FALSE, content |-> <<>>]
NoRun == [status |-> "none", args |-> <<>>, filename |-> "", before |-> NoFile]


---------------------------------------------------------------------------
(* middleware.py: helpers *)

\* truth value of the header string: absent and "" are both false
HeaderTruthy(h) == h # <<>> /\ h # <<"">>

get_remote_addr(req) ==
    LET x_forwarded_for == req.META.HTTP_X_FORWARDED_FOR IN
    IF HeaderTruthy(x_forwarded_for)
        THEN Head(x_forwarded_for)              \* partition(',')[0]
        ELSE req.META.REMOTE_ADDR

get_username(user) ==
    IF user.is_authenticated THEN user.username ELSE None

AccessLoggerAdapter(username, remote_addr) ==
    [remote_addr |-> IF Truthy(remote_addr) THEN remote_addr ELSE "-",
     username    |-> IF Truthy(username) THEN username ELSE "-"]

\* getattr(obj, name, default) on an object whose attributes are attrs
getattr(attrs, name, default) ==
    IF name \in DOMAIN attrs THEN attrs[name] ELSE default

\* attributes of the callable at depth d: only the view carries the
\* log_access attributes, a middleware closure has none
AttrsOf(d) == IF d = ViewDepth THEN view_attrs ELSE <<>>

PosOf(name) == CHOOSE i \in 1..Len(chain) : chain[i] = name
InChain(name) == \E i \in 1..Len(chain) : chain[i] = name
At(name) == depth \in 1..Len(chain) /\ chain[depth] = name

\* get_response of access_logging_middleware is the next callable
log_level_authenticated ==
    getattr(AttrsOf(PosOf("access") + 1), "log_level_auth", INFO)
log_level_unauthenticated ==
    getattr(AttrsOf(PosOf("access") + 1), "log_level_unauth", INFO)

\* mutant: the 4xx boundary off by one
get_log_level_OffByOne(status_code, is_authenticated) ==
    IF status_code <= 400
        THEN IF is_authenticated
                THEN log_level_authenticated
                ELSE log_level_unauthenticated
        ELSE IF status_code < 500 THEN WARNING ELSE ERROR

get_log_level(status_code, is_authenticated) ==
    IF status_code < 400
        THEN IF is_authenticated
                THEN log_level_authenticated
                ELSE log_level_unauthenticated
        ELSE IF status_code < 500 THEN WARNING ELSE ERROR

LogLine(ctx, level, type_, req, status_code, reason_phrase) ==
    [level |-> level, type |-> type_, method |-> req.method, path |-> req.path,
     status_code |-> status_code, reason_phrase |-> reason_phrase,
     username |-> ctx.username, remote_addr |-> ctx.remote_addr]

\* mutant: the two tags swapped
EntryLine_TagSwapped(ctx, req) ==
    IF req.user.is_authenticated
        THEN LogLine(ctx, getattr(AttrsOf(PosOf("access") + 1), "log_level_auth", INFO),
                     "N", req, 0, "")
        ELSE LogLine(ctx, getattr(AttrsOf(PosOf("access") + 1), "log_level_unauth", INFO),
                     "A", req, 0, "")

\* the first log call of middleware(): type and level from the auth state
EntryLine(ctx, req) ==
    IF req.user.is_authenticated
        THEN LogLine(ctx, getattr(AttrsOf(PosOf("access") + 1), "log_level_auth", INFO),
                     "A", req, 0, "")
        ELSE LogLine(ctx, getattr(AttrsOf(PosOf("access") + 1), "log_level_unauth", INFO),
                     "N", req, 0, "")

\* mutant: the context is built again when the response is logged
ResponseLine_FreshContext(ctx, req, resp) ==
    LogLine(AccessLoggerAdapter(get_username(req.user), get_remote_addr(req)),
            get_log_level(resp.status_code, req.user.is_authenticated),
            "R", req, resp.status_code, resp.reason_phrase)

\* the second log call of middleware()
ResponseLine(ctx, req, resp) ==
    LogLine(ctx, get_log_level(resp.status_code, req.user.is_authenticated),
            "R", req, resp.status_code, resp.reason_phrase)

\* mutant: the negation of is_active lost
ShouldLogout_NoNegation(user) == user.is_authenticated /\ user.is_active

\* condition of inactive_user_logout_middleware
ShouldLogout(user) == user.is_authenticated /\ ~user.is_active

\* mutant: the session is flushed but request.user stays
LoggedOut_KeepsUser(req) == req

\* django.contrib.auth.logout: flush the session, request.user = AnonymousUser()
LoggedOut(req) == [req EXCEPT !.user = AnonymousUser]

\* the callable at depth d is invoked with the request req
Invoke(d, req) ==
    /\ calls' = [calls EXCEPT ![d] = @ + 1]
    /\ seen' = [seen EXCEPT ![d] = req.user]
    /\ depth' = d
    /\ phase' = "enter"

\* the callable at depth d returns to its caller
Return(d) ==
    /\ depth' = d - 1
    /\ phase' = IF d = 1 THEN "idle" ELSE "leave"

---------------------------------------------------------------------------
(* Init *)

Init ==
    /\ chain \in Chains
    /\ view_attrs \in ViewAttrs
    /\ active \in [Users -> BOOLEAN]
    /\ session = None
    /\ phase = "idle"
    /\ depth = 0
    /\ request = NoRequest
    /\ logger = NoLogger
    /\ response = NoResponse
    /\ access_log = <<>>
    /\ calls = [d \in 1..ViewDepth |-> 0]
    /\ seen = [d \in 1..ViewDepth |-> AnonymousUser]
    /\ view_response = NoResponse
    /\ signup_request = None
    /\ signup_result = None
    /\ store = <<>>
    /\ files = NoFile
    /\ stdout = <<>>
    /\ cmd = NoRun

---------------------------------------------------------------------------
(* Actions of the request pipeline *)

\* the framework builds the request and calls the outermost middleware
StartRequest ==
    /\ phase \in {"idle", "raised"}
    /\ \E m \in Methods, p \in Paths, meta \in Metas :
         LET user == IF session = None THEN AnonymousUser
                     ELSE UserObject(session, active[session])
             req == [method |-> m, path |-> p, META |-> meta, user |-> user]
         IN /\ request' = req
            /\ calls' = [d \in 1..ViewDepth |-> IF d = 1 THEN 1 ELSE 0]
            /\ seen' = [d \in 1..ViewDepth |-> IF d = 1 THEN user ELSE AnonymousUser]
    /\ depth' = 1
    /\ phase' = "enter"
    /\ logger' = NoLogger
    /\ response' = NoResponse
    /\ view_response' = NoResponse
    /\ access_log' = <<>>
    /\ signup_request' = None
    /\ signup_result' = None
    /\ UNCHANGED <<chain, view_attrs, active, session, export_vars>>

\* inactive_user_logout_middleware.middleware up to get_response(request)
LogoutEnter ==
    /\ phase = "enter" /\ At("logout")
    /\ IF ShouldLogout(request.user)
          THEN request' = LoggedOut(request) /\ session' = None
          ELSE UNCHANGED <<request, session>>
    /\ Invoke(depth + 1, request')
    /\ UNCHANGED <<chain, view_attrs, active, logger, response, access_log,
                   view_response, signup_vars, export_vars>>

\* inactive_user_logout_middleware.middleware: return get_response(request)
LogoutLeave ==
    /\ phase = "leave" /\ At("logout")
    /\ Return(depth)
    /\ UNCHANGED <<chain, view_attrs, active, session, request, logger, response,
                   access_log, calls, seen, view_response, signup_vars, export_vars>>

\* access_logging_middleware.middleware up to get_response(request)
AccessEnter ==
    /\ phase = "enter" /\ At("access")
    /\ LET ctx == AccessLoggerAdapter(get_username(request.user),
                                      get_remote_addr(request))
       IN /\ logger' = ctx
          /\ access_log' = Append(access_log, EntryLine(ctx, request))
    /\ Invoke(depth + 1, request)
    /\ UNCHANGED <<chain, view_attrs, active, session, request, response,
                   view_response, signup_vars, export_vars>>

\* mutant: the middleware answers with a response of its own
AccessLeave_OwnResponse ==
    /\ phase = "leave" /\ At("access")
    /\ access_log' = Append(access_log, ResponseLine(logger, request, response))
    /\ response' = [response EXCEPT !.body = ""]
    /\ Return(depth)
    /\ UNCHANGED <<chain, view_attrs, active, session, request, logger,
                   calls, seen, view_response, signup_vars, export_vars>>

\* access_logging_middleware.middleware after get_response(request) returned
AccessLeave ==
    /\ phase = "leave" /\ At("access")
    /\ access_log' = Append(access_log, ResponseLine(logger, request, response))
    /\ Return(depth)
    /\ UNCHANGED <<chain, view_attrs, active, session, request, logger, response,
                   calls, seen, view_response, signup_vars, export_vars>>

\* the view at the end of the chain: any response, and it may log a user
\* in (allauth's login view) or out (the logout view)
ViewReturns ==
    /\ phase = "enter" /\ depth = ViewDepth
    /\ \E resp \in Responses :
         /\ response' = resp
         /\ view_response' = resp
    /\ \/ UNCHANGED <<request, session>>
       \/ \E u \in Users :
            /\ active[u]
            /\ session' = u
            /\ request' = [request EXCEPT !.user = UserObject(u, TRUE)]
       \/ /\ request.user.is_authenticated
          /\ request' = LoggedOut(request)
          /\ session' = None
    /\ Return(depth)
    /\ signup_request' = None
    /\ signup_result' = None
    /\ UNCHANGED <<chain, view_attrs, active, logger, access_log, calls, seen,
                   export_vars>>

\* the view raises: no middleware of the chain catches, the exception
\* reaches the framework
ViewRaises ==
    /\ phase = "enter" /\ depth = ViewDepth
    /\ phase' = "raised"
    /\ depth' = 0
    /\ signup_request' = None
    /\ signup_result' = None
    /\ UNCHANGED <<chain, view_attrs, active, session, request, logger, response,
                   access_log, calls, seen, view_response, export_vars>>

\* an administrator (de)activates a user account between requests
SetActive ==
    /\ phase \in {"idle", "raised"}
    /\ \E u \in Users : active' = [active EXCEPT ![u] = ~@]
    /\ UNCHANGED <<chain, view_attrs, session, phase, depth, request, logger,
                   response, access_log, calls, seen, view_response,
                   signup_vars, export_vars>>

---------------------------------------------------------------------------
(* adapter.py *)

\* mutant: the default adapter's answer for a request
is_open_for_signup_Default(req) == Truthy(req)

is_open_for_signup(req) == FALSE

SignupRequests == {None, "request"}

\* a view of allauth asks the adapter whether signup is open
IsOpenForSignup ==
    /\ phase = "enter" /\ depth = ViewDepth
    /\ \E r \in SignupRequests :
         /\ signup_request' = r
         /\ signup_result' = IF is_open_for_signup(r) THEN "True" ELSE "False"
    /\ UNCHANGED <<mw_vars, export_vars>>

Next ==
    \/ StartRequest
    \/ LogoutEnter
    \/ LogoutLeave
    \/ AccessEnter
    \/ AccessLeave
    \/ ViewReturns
    \/ ViewRaises
    \/ SetActive
    \/ IsOpenForSignup

Spec == Init /\ [][Next]_vars

---------------------------------------------------------------------------
(* auth_export_users.py: values *)

\* Python and JSON values, tagged by their type
JNone == [t |-> "null"]
JStr(str) == [t |-> "str", v |-> str]
JBool(b) == [t |-> "bool", v |-> b]
JList(l) == [t |-> "list", v |-> l]
JDict(pairs) == [t |-> "dict", v |-> pairs]
DateTime(d, tm) == [t |-> "datetime", date |-> d, time |-> tm]

MaxEmails == 2

Range(f) == {f[i] : i \in DOMAIN f}
SeqsUpTo(S, n) == UNION {[1..k -> S] : k \in 0..n}

\* ---- the rows the store may hold ----
FullProfile ==
    [title |-> JStr("Dr"), institution |-> JStr("EOX"),
     country |-> [code |-> JStr("AT")], study_area |-> JStr("ocean"),
     executive_summary |-> JStr("summary")]
BlankProfile ==
    [title |-> JStr(""), institution |-> JStr(""),
     country |-> [code |-> JNone], study_area |-> JStr(""),
     executive_summary |-> JStr("")]
Profiles ==
    {FullProfile, BlankProfile,
     [FullProfile EXCEPT !.title = JStr("")],
     [FullProfile EXCEPT !.institution = JStr("")],
     [FullProfile EXCEPT !.country = [code |-> JStr("")]],
     [FullProfile EXCEPT !.country = [code |-> JNone]],
     [FullProfile EXCEPT !.study_area = JStr("")],
     [FullProfile EXCEPT !.executive_summary = JStr("")]}

EmailAddresses ==
    {[email |-> JStr("a@example.org"), verified |-> JBool(TRUE), primary |-> JBool(TRUE)],
     [email |-> JStr("b@example.org"), verified |-> JBool(FALSE), primary |-> JBool(FALSE)],
     [email |-> JStr(""), verified |-> JBool(FALSE), primary |-> JBool(FALSE)]}

FullSocialAccount ==
    [uid |-> JStr("1234"), provider |-> JStr("github"),
     date_joined |-> DateTime("2019-05-01", "10:00:00"),
     last_login |-> DateTime("2019-06-01", "11:30:00"),
     extra_data |-> JDict(<< <<"name", JStr("A")>>, <<"bio", JNone>> >>)]
SocialAccountSets ==
    {<<>>,
     <<FullSocialAccount>>,
     <<[FullSocialAccount EXCEPT !.last_login = JNone, !.extra_data = JDict(<<>>)]>>,
     <<[FullSocialAccount EXCEPT !.uid = JStr(""), !.extra_data = JList(<<>>)]>>,
     <<FullSocialAccount, [FullSocialAccount EXCEPT !.extra_data = JNone]>>}

FullUser(u) ==
    [username |-> JStr(u), password |-> JStr("pbkdf2_sha256$x"),
     is_active |-> JBool(TRUE),
     date_joined |-> DateTime("2019-04-01", "09:00:00"),
     last_login |-> DateTime("2019-07-01", "12:00:00"),
     first_name |-> JStr("First"), last_name |-> JStr("Last"),
     email |-> JStr(u \o "@example.org"),
     userprofile |-> FullProfile,
     emailaddress_set |-> <<CHOOSE e \in EmailAddresses : e.primary = JBool(TRUE)>>,
     socialaccount_set |-> <<FullSocialAccount>>]
BlankUser(u) ==
    [username |-> JStr(u), password |-> JStr(""),
     is_active |-> JBool(FALSE),
     date_joined |-> DateTime("2019-04-01", "09:00:00"),
     last_login |-> JNone,
     first_name |-> JStr(""), last_name |-> JStr(""),
     email |-> JStr(""),
     userprofile |-> JNone,
     emailaddress_set |-> <<>>,
     socialaccount_set |-> <<>>]

\* one field of a row set to another value
FieldChanges ==
    {<<"password", JStr("")>>, <<"password", JStr("pbkdf2_sha256$x")>>,
     <<"is_active", JBool(FALSE)>>, <<"is_active", JBool(TRUE)>>,
     <<"last_login", JNone>>, <<"last_login", DateTime("2019-07-01", "12:00:00")>>,
     <<"first_name", JStr("")>>, <<"last_name", JStr("")>>,
     <<"last_name", JStr("Last")>>, <<"email", JStr("")>>}
      \cup {<<"userprofile", x>> : x \in Profiles \cup {JNone}}
      \cup {<<"emailaddress_set", x>> : x \in SeqsUpTo(EmailAddresses, MaxEmails)}
      \cup {<<"socialaccount_set", x>> : x \in SocialAccountSets}

UserRows(u) ==
    {[base EXCEPT ![c[1]] = c[2]] : base \in {FullUser(u), BlankUser(u)}, c \in FieldChanges}

\* the stores: at most one row per username, in the order the query yields
Stores ==
    {<<>>} \cup {<<a>> : a \in UserRows("alice")}
           \cup {<<b>> : b \in {FullUser("bob"), BlankUser("bob")}}
           \cup {<<a, b>> : a \in {FullUser("alice"), BlankUser("alice")},
                            b \in {FullUser("bob"), BlankUser("bob")}}
           \cup {<<b, a>> : a \in {FullUser("alice"), BlankUser("alice")},
                            b \in {FullUser("bob"), BlankUser("bob")}}

\* the usernames given on the command line; no row is called "ghost"
ArgLists == {<<>>, <<"alice">>, <<"bob">>, <<"ghost">>, <<"alice", "ghost">>,
             <<"bob", "alice">>, <<"alice", "alice">>}
FileNames == {"-", "users.json"}

---------------------------------------------------------------------------
(* auth_export_users.py: serialization *)

\* OrderedDict(pairs): a key given twice keeps its first place and takes
\* the last value
RECURSIVE OrderedDict(_)
OrderedDict(pairs) ==
    IF pairs = <<>> THEN <<>>
    ELSE LET front == OrderedDict(SubSeq(pairs, 1, Len(pairs) - 1))
             item == pairs[Len(pairs)]
         IN IF \E i \in 1..Len(front) : front[i][1] = item[1]
               THEN [i \in 1..Len(front) |->
                        IF front[i][1] = item[1] THEN item ELSE front[i]]
               ELSE Append(front, item)

\* mutant: only None counts as blank
strip_blanks_NoneOnly(dict) ==
    LET keep(item) == item[2] # JNone IN SelectSeq(dict, keep)

\* the decorator, applied to the mapping the decorated function returns
strip_blanks(dict) ==
    LET keep(item) == item[2] \notin {JNone, JStr(""), JList(<<>>)}
    IN SelectSeq(dict, keep)

datetime_to_string(dtobj) ==
    IF dtobj = JNone THEN dtobj ELSE JStr(dtobj.date \o "T" \o dtobj.time)

serialize_user_profile(object_) ==
    strip_blanks(OrderedDict(<<
        <<"title", object_.title>>,
        <<"institution", object_.institution>>,
        <<"country", object_.country.code>>,
        <<"study_area", object_.study_area>>,
        <<"executive_summary", object_.executive_summary>> >>))

serialize_email_address(object_) ==
    strip_blanks(OrderedDict(<<
        <<"email", object_.email>>,
        <<"verified", object_.verified>>,
        <<"primary", object_.primary>> >>))

serialize_social_account(object_) ==
    strip_blanks(OrderedDict(<<
        <<"uid", object_.uid>>,
        <<"provider", object_.provider>>,
        <<"date_joined", datetime_to_string(object_.date_joined)>>,
        <<"last_login", datetime_to_string(object_.last_login)>>,
        <<"extra_data", object_.extra_data>>,
        <<"provider", object_.provider>> >>))

\* serialize_list(funct, objects) for the two functions it is used with
serialize_email_addresses(objects) ==
    JList([i \in 1..Len(objects) |-> JDict(serialize_email_address(objects[i]))])
serialize_social_accounts(objects) ==
    JList([i \in 1..Len(objects) |-> JDict(serialize_social_account(objects[i]))])

serialize_user(object_) ==
    LET user_profile == object_.userprofile     \* None when DoesNotExist
    IN strip_blanks(OrderedDict(<<
        <<"username", object_.username>>,
        <<"password", object_.password>>,
        <<"is_active", object_.is_active>>,
        <<"date_joined", datetime_to_string(object_.date_joined)>>,
        <<"last_login", datetime_to_string(object_.last_login)>>,
        <<"first_name", object_.first_name>>,
        <<"last_name", object_.last_name>>,
        <<"email", object_.email>>,
        <<"user_profile", IF user_profile # JNone
                             THEN JDict(serialize_user_profile(user_profile))
                             ELSE JNone>>,
        <<"email_addresses", serialize_email_addresses(object_.emailaddress_set)>>,
        <<"social_accounts", serialize_social_accounts(object_.socialaccount_set)>> >>))

---------------------------------------------------------------------------
(* auth_export_users.py: the command *)

\* mutant: the filter dropped, every row selected
select_users_All(users, args) == users

\* User.objects.all() without names, filter(username__in=args) with names
select_users(users, args) ==
    IF args = <<>>
        THEN users
        ELSE LET among(user) == \E i \in 1..Len(args) : user.username = JStr(args[i])
             IN SelectSeq(users, among)

\* what json.dump writes, in the pieces it writes it: the opening bracket,
\* one piece per element, the closing bracket
Piece(tok, item) == [tok |-> tok, item |-> item]
json_dump(data) ==
    <<Piece("[", <<>>)>>
        \o [i \in 1..Len(data) |-> Piece("item", data[i])]
        \o <<Piece("]", <<>>)>>

\* mutant: the output is written to a temporary file that replaces the
\* named file once it is complete
HandleWriteFails_Atomic ==
    \E args \in ArgLists :
        LET data == [i \in 1..Len(select_users(store, args)) |->
                        serialize_user(select_users(store, args)[i])]
        IN /\ files' = files
           /\ stdout' = <<>>
           /\ cmd' = [status |-> "IOError in write", args |-> args, filename |-> "users.json", before |-> files]
           /\ UNCHANGED <<store, mw_vars, signup_vars>>

\* handle(): the run completes
HandleCompletes ==
    \E args \in ArgLists, filename \in FileNames :
        LET query == select_users(store, args)
            data == [i \in 1..Len(query) |-> serialize_user(query[i])]
        IN /\ IF filename = "-"
                 THEN /\ stdout' = json_dump(data)
                      /\ files' = files
                 ELSE /\ stdout' = <<>>
                      /\ files' = [exists |-> TRUE, content |-> json_dump(data)]
           /\ cmd' = [status |-> "ok", args |-> args, filename |-> filename, before |-> files]
           /\ UNCHANGED <<store, mw_vars, signup_vars>>

\* handle(): open(filename, "wb") raises, nothing has been written
HandleOpenFails ==
    \E args \in ArgLists :
        LET query == select_users(store, args)
            data == [i \in 1..Len(query) |-> serialize_user(query[i])]
        IN /\ files' = files
           /\ stdout' = <<>>
           /\ cmd' = [status |-> "IOError in open", args |-> args, filename |-> "users.json", before |-> files]
           /\ UNCHANGED <<store, mw_vars, signup_vars>>

\* handle(): open(filename, "wb") has truncated the file and a write of
\* json.dump raises after k pieces
HandleWriteFails ==
    \E args \in ArgLists :
        LET query == select_users(store, args)
            data == [i \in 1..Len(query) |-> serialize_user(query[i])]
        IN \E k \in 0..(Len(json_dump(data)) - 1) :
           /\ files' = [exists |-> TRUE, content |-> SubSeq(json_dump(data), 1, k)]
           /\ stdout' = <<>>
           /\ cmd' = [status |-> "IOError in write", args |-> args, filename |-> "users.json", before |-> files]
           /\ UNCHANGED <<store, mw_vars, signup_vars>>

InitExport ==
    /\ chain = <<"access">>
    /\ view_attrs = <<>>
    /\ active = [u \in Users |-> TRUE]
    /\ session = None
    /\ phase = "idle"
    /\ depth = 0
    /\ request = NoRequest
    /\ logger = NoLogger
    /\ response = NoResponse
    /\ access_log = <<>>
    /\ calls = [d \in 1..2 |-> 0]
    /\ seen = [d \in 1..2 |-> AnonymousUser]
    /\ view_response = NoResponse
    /\ signup_request = None
    /\ signup_result = None
    /\ store \in Stores
    /\ files = NoFile
    /\ stdout = <<>>
    /\ cmd = NoRun

NextExport ==
    \/ HandleCompletes
    \/ HandleOpenFails
    \/ HandleWriteFails

SpecExport == InitExport /\ [][NextExport]_vars

---------------------------------------------------------------------------
(* Properties of the request pipeline *)

AuthInactive(user) == user.is_authenticated /\ ~user.is_active

\* the level the decorator configured on the callable the access logger
\* wraps, INFO when it configured none
ConfiguredLevel(name) ==
    IF PosOf("access") = Len(chain) /\ name \in DOMAIN view_attrs
        THEN view_attrs[name] ELSE INFO

\* the callable at position p has been invoked and has passed control on
Delegated(p) == calls[p] = 1 /\ ~(phase = "enter" /\ depth = p)
\* the callable at position p has returned a response
Returned(p) == calls[p] = 1 /\ (phase = "idle" \/ (phase = "leave" /\ depth < p))

\* the step in which the middleware called name delegates to its get_response
EnterStep(name) == phase = "enter" /\ At(name) /\ depth' # depth
\* the step in which the middleware called name returns
LeaveStep(name) == phase = "leave" /\ At(name) /\ depth' # depth

\* C1: the enforcer logs an authenticated, inactive user out before it
\* invokes the wrapped handler, so the wrapped handler never gets an
\* authenticated-inactive user; for every other user it leaves request and
\* session alone; it invokes the wrapped handler exactly once and returns
\* what the wrapped handler returned.
C1_InactiveUserLogout ==
    /\ [](InChain("logout") =>
            LET p == PosOf("logout") IN
            /\ calls[p + 1] <= 1
            /\ Delegated(p) => calls[p + 1] = 1
            /\ calls[p + 1] = 1 => ~AuthInactive(seen[p + 1])
            /\ calls[p + 1] = 1 =>
                 seen[p + 1] = IF AuthInactive(seen[p]) THEN AnonymousUser ELSE seen[p])
    /\ [][EnterStep("logout") =>
            IF AuthInactive(request.user)
               THEN /\ request' = [request EXCEPT !.user = AnonymousUser]
                    /\ session' = None
               ELSE /\ request' = request
                    /\ session' = session]_vars
    /\ [][LeaveStep("logout") =>
            /\ response' = response
            /\ request' = request
            /\ session' = session]_vars

C1_Witness ==
    /\ InChain("logout")
    /\ AuthInactive(seen[PosOf("logout")])
    /\ Returned(PosOf("logout"))
    /\ seen[PosOf("logout") + 1] = AnonymousUser
    /\ session = None
    /\ response = view_response
    /\ response.status_code = 200

\* C2: is_open_for_signup answers False for every request, None included,
\* however often it is called, and the call changes nothing else.
C2_SignupClosed ==
    /\ [](signup_result # "True")
    /\ [][signup_result' # None =>
            /\ signup_result' = "False"
            /\ UNCHANGED <<mw_vars, export_vars>>]_vars

C2_Witness ==
    /\ signup_result = "False"
    /\ signup_request = None
    /\ session # None

\* C3: a request whose wrapped handler returns gets exactly two lines: the
\* first, present once the wrapped handler is invoked, is tagged A or N by
\* the auth state at entry and carries method and path; the second, tagged
\* R, carries method, path, status code and reason phrase, and is never
\* there before the wrapped handler has returned.
C3_TwoLines ==
    InChain("access") =>
        LET p == PosOf("access") IN
        /\ Len(access_log) <= 2
        /\ calls[p + 1] = 1 =>
             /\ Len(access_log) >= 1
             /\ access_log[1].type = (IF seen[p].is_authenticated THEN "A" ELSE "N")
             /\ access_log[1].method = request.method
             /\ access_log[1].path = request.path
        /\ calls[p + 1] = 0 => Len(access_log) = 0
        /\ Returned(p) =>
             /\ Len(access_log) = 2
             /\ access_log[2].type = "R"
             /\ access_log[2].method = request.method
             /\ access_log[2].path = request.path
             /\ access_log[2].status_code = view_response.status_code
             /\ access_log[2].reason_phrase = view_response.reason_phrase
        /\ ~Returned(p) => Len(access_log) <= 1
        /\ Len(access_log) = 2 => view_response # NoResponse

C3_Witness ==
    /\ InChain("access")
    /\ Returned(PosOf("access"))
    /\ Len(access_log) = 2
    /\ access_log[1].type = "A"
    /\ access_log[1].method = "POST"
    /\ access_log[2].type = "R"
    /\ access_log[2].status_code = 200
    /\ access_log[2].reason_phrase = "OK"

\* C4: the level of the R line is: below 400 the configured level of the
\* auth state (log_level_auth if authenticated, else log_level_unauth, INFO
\* when not configured), 400..499 WARNING, 500 and above ERROR.
C4_Severity ==
    (InChain("access") /\ Len(access_log) = 2) =>
        LET line == access_log[2]
            code == view_response.status_code IN
        /\ code < 400 =>
             line.level = IF request.user.is_authenticated
                             THEN ConfiguredLevel("log_level_auth")
                             ELSE ConfiguredLevel("log_level_unauth")
        /\ (400 <= code /\ code <= 499) => line.level = WARNING
        /\ code >= 500 => line.level = ERROR

C4_Witness ==
    /\ InChain("access")
    /\ Len(access_log) = 2
    /\ view_response.status_code = 399
    /\ request.user.is_authenticated
    /\ "log_level_auth" \in DOMAIN view_attrs
    /\ "log_level_unauth" \notin DOMAIN view_attrs
    /\ access_log[2].level = DEBUG

\* the request of a session whose user was deactivated, through the
\* enforcer first and the access logger second
C7_Case == chain = <<"logout", "access">> /\ calls[1] = 1 /\ AuthInactive(seen[1])

\* C7 as stated: in the chain enforcer, access logger the request of an
\* authenticated, inactive user is logged out before the view runs, the
\* first line is N with username "-", and the R line has username "-" and
\* the unauthenticated level (here read for the statuses below 400, where
\* the level depends on the auth state at all).
C7_Original ==
    C7_Case =>
        /\ calls[3] = 1 => seen[3] = AnonymousUser
        /\ Len(access_log) >= 1 =>
             access_log[1].type = "N" /\ access_log[1].username = "-"
        /\ (Len(access_log) = 2 /\ view_response.status_code < 400) =>
             /\ access_log[2].username = "-"
             /\ access_log[2].level = ConfiguredLevel("log_level_unauth")

\* C7 amended: as above, but the level of the R line follows the status
\* code and the auth state the view left: the unauthenticated level when
\* the status is below 400 and the view logged nobody in, the authenticated
\* level when it is below 400 and the view logged a user in, WARNING for
\* 400..499 and ERROR from 500 on.
C7_LogoutThenAnonymousLines ==
    C7_Case =>
        /\ calls[2] = 1 => seen[2] = AnonymousUser
        /\ calls[3] = 1 => seen[3] = AnonymousUser
        /\ Len(access_log) >= 1 =>
             access_log[1].type = "N" /\ access_log[1].username = "-"
        /\ Len(access_log) = 2 =>
             LET code == view_response.status_code IN
             /\ access_log[2].username = "-"
             /\ access_log[2].level =
                  IF code < 400
                     THEN IF request.user.is_authenticated
                             THEN ConfiguredLevel("log_level_auth")
                             ELSE ConfiguredLevel("log_level_unauth")
                     ELSE IF code <= 499 THEN WARNING ELSE ERROR

C7_Witness ==
    /\ C7_Case
    /\ Len(access_log) = 2
    /\ seen[3] = AnonymousUser
    /\ ~request.user.is_authenticated
    /\ view_response.status_code = 200
    /\ "log_level_unauth" \in DOMAIN view_attrs
    /\ "log_level_auth" \notin DOMAIN view_attrs
    /\ access_log[1].type = "N"
    /\ access_log[2].level = DEBUG
    /\ access_log[2].username = "-"

\* C8: the access logger invokes the wrapped handler exactly once with the
\* request it got, returns the response the wrapped handler returned, and
\* changes nothing of request, session or user store: each of its two steps
\* appends one line to the access log and that is all.
C8_SideEffectOnly ==
    /\ [](InChain("access") =>
            LET p == PosOf("access") IN
            /\ calls[p + 1] <= 1
            /\ Delegated(p) => calls[p + 1] = 1
            /\ calls[p + 1] = 1 => seen[p + 1] = seen[p]
            /\ (Returned(p) /\ p = 1) => response = view_response)
    /\ [][EnterStep("access") =>
            /\ request' = request
            /\ session' = session
            /\ active' = active
            /\ response' = response
            /\ Len(access_log') = Len(access_log) + 1]_vars
    /\ [][LeaveStep("access") =>
            /\ request' = request
            /\ session' = session
            /\ active' = active
            /\ response' = response
            /\ Len(access_log') = Len(access_log) + 1
            /\ SubSeq(access_log', 1, Len(access_log)) = access_log]_vars

C8_Witness ==
    /\ chain = <<"access">>
    /\ Returned(1)
    /\ response = view_response
    /\ response.status_code = 500
    /\ response.body = "body"
    /\ session # None
    /\ Len(access_log) = 2

\* C10: both lines of a request carry the username and remote address
\* taken from the request before the wrapped handler ran, whatever the view
\* did to the login; the level of an R line below status 400 is that of the
\* auth state after the wrapped handler returned.
C10_ContextOnceLevelLate ==
    (InChain("access") /\ Len(access_log) = 2) =>
        LET p == PosOf("access")
            forwarded == request.META.HTTP_X_FORWARDED_FOR
            addr == IF forwarded # <<>> /\ forwarded # <<"">>
                       THEN forwarded[1] ELSE request.META.REMOTE_ADDR
        IN
        /\ access_log[2].username = access_log[1].username
        /\ access_log[2].remote_addr = access_log[1].remote_addr
        /\ access_log[1].username =
             (IF seen[p].is_authenticated THEN seen[p].username ELSE "-")
        /\ access_log[1].remote_addr = (IF addr \in {None, ""} THEN "-" ELSE addr)
        /\ view_response.status_code < 400 =>
             access_log[2].level = IF request.user.is_authenticated
                                      THEN ConfiguredLevel("log_level_auth")
                                      ELSE ConfiguredLevel("log_level_unauth")

\* the view logged out the user the request came in with
C10_Witness ==
    /\ chain = <<"access">>
    /\ Len(access_log) = 2
    /\ seen[1].is_authenticated
    /\ ~request.user.is_authenticated
    /\ view_response.status_code = 399
    /\ "log_level_unauth" \in DOMAIN view_attrs
    /\ "log_level_auth" \notin DOMAIN view_attrs
    /\ access_log[1].username = "alice"
    /\ access_log[2].username = "alice"
    /\ access_log[1].level = INFO
    /\ access_log[2].level = DEBUG
    /\ access_log[2].remote_addr = "-"

---------------------------------------------------------------------------
(* Properties of the export command *)

Blanks == {JNone, JStr(""), JList(<<>>)}
NoBlankValue(dict) == \A i \in 1..Len(dict) : dict[i][2] \notin Blanks
HasKey(dict, key) == \E i \in 1..Len(dict) : dict[i][1] = key
ValueOf(dict, key) == dict[CHOOSE i \in 1..Len(dict) : dict[i][1] = key][2]
KeysOf(dict) == [i \in 1..Len(dict) |-> dict[i][1]]

\* the keys of dict are keys of declared, each once, in the order of declared
InDeclaredOrder(dict, declared) ==
    LET place(key) == CHOOSE n \in 1..Len(declared) : declared[n] = key IN
    /\ \A i \in 1..Len(dict) : dict[i][1] \in Range(declared)
    /\ \A i, j \in 1..Len(dict) : i < j => place(dict[i][1]) < place(dict[j][1])

UserFields ==
    <<"username", "password", "is_active", "date_joined", "last_login", "first_name",
      "last_name", "email", "user_profile", "email_addresses", "social_accounts">>
ProfileFields == <<"title", "institution", "country", "study_area", "executive_summary">>
EmailFields == <<"email", "verified", "primary">>
SocialFields == <<"uid", "provider", "date_joined", "last_login", "extra_data">>

WellFormed(dict, declared) == NoBlankValue(dict) /\ InDeclaredOrder(dict, declared)

\* a serialized user and every record nested in it is free of blanks and
\* in declaration order
SerializedUserOk(dict) ==
    /\ WellFormed(dict, UserFields)
    /\ HasKey(dict, "user_profile") =>
         WellFormed(ValueOf(dict, "user_profile").v, ProfileFields)
    /\ HasKey(dict, "email_addresses") =>
         \A i \in 1..Len(ValueOf(dict, "email_addresses").v) :
            WellFormed(ValueOf(dict, "email_addresses").v[i].v, EmailFields)
    /\ HasKey(dict, "social_accounts") =>
         \A i \in 1..Len(ValueOf(dict, "social_accounts").v) :
            WellFormed(ValueOf(dict, "social_accounts").v[i].v, SocialFields)

\* the serialized records a run put out, wherever it wrote them
WrittenItems ==
    {stdout[i].item : i \in {n \in 1..Len(stdout) : stdout[n].tok = "item"}}
      \cup {files.content[i].item :
               i \in {n \in 1..Len(files.content) : files.content[n].tok = "item"}}

RowOf(dict) == CHOOSE row \in Range(store) : row.username = dict[1][2]

\* C5: every serialized user record keeps the declaration order and holds
\* no None, "" or [] value, at the top and in every nested profile, email
\* address and social account record; without profile, emails and social
\* accounts the three keys are absent, and without last_login that key is.
C5_NoBlanksInOrder ==
    \A dict \in WrittenItems :
        /\ SerializedUserOk(dict)
        /\ dict[1][1] = "username"
        /\ RowOf(dict).userprofile = JNone => ~HasKey(dict, "user_profile")
        /\ RowOf(dict).emailaddress_set = <<>> => ~HasKey(dict, "email_addresses")
        /\ RowOf(dict).socialaccount_set = <<>> => ~HasKey(dict, "social_accounts")
        /\ RowOf(dict).last_login = JNone => ~HasKey(dict, "last_login")

\* a user with nothing but the mandatory fields and one social account
\* whose uid is "" and whose extra_data is []
C5_Witness ==
    /\ cmd.status = "ok"
    /\ \E dict \in WrittenItems :
         /\ KeysOf(dict) = <<"username", "is_active", "date_joined", "social_accounts">>
         /\ RowOf(dict).userprofile = JNone
         /\ RowOf(dict).last_login = JNone
         /\ RowOf(dict).emailaddress_set = <<>>
         /\ KeysOf(ValueOf(dict, "social_accounts").v[1].v) =
               <<"provider", "date_joined", "last_login">>

\* what the last run put out
Output == IF cmd.filename = "-" THEN stdout ELSE files.content
Complete(out) ==
    /\ Len(out) >= 2
    /\ out[1].tok = "[" /\ out[Len(out)].tok = "]"
    /\ \A i \in 2..(Len(out) - 1) : out[i].tok = "item"

\* the rows the usernames given on the command line select
Selected ==
    {i \in 1..Len(store) :
        cmd.args = <<>> \/ \E j \in 1..Len(cmd.args) : store[i].username = JStr(cmd.args[j])}

Expected ==
    json_dump([i \in 1..Len(select_users(store, cmd.args)) |->
                  serialize_user(select_users(store, cmd.args)[i])])

=============================================================================
